---- MODULE Spec2Model ----
(***************************************************************************)
(* nifty-bot-v4: the session store (SessionManager over the sqlite table   *)
(* `sessions`) and the POST /chat handler of src/main.py.                  *)
(*                                                                         *)
(* Texts are sequences of character codes (32 is the space).  The column   *)
(* `messages` holds the JSON text of a list of {role, text} objects; it is *)
(* modelled as the token sequence  "[" role text role text ... "]".        *)
(***************************************************************************)
EXTENDS Integers, Sequences, FiniteSets, TLC

VARIABLES
    db,          \* the table sessions: session_id -> JSON text (rows that exist)
    saved,       \* history variable: every turn ever written, per session id
    got,         \* SpecStore: the last get_turns call and what it returned
    ncalls,      \* SpecStore: number of store calls made
    pc,          \* per worker: position of the request it is handling
    data,        \* per worker: the request body (local of chat), until it is validated
    session_id,  \* per worker: the resolved session id (local of chat)
    message,     \* per worker: the stripped message (local of chat)
    history,     \* per worker: the provider-format history (local of chat_with_gemini)
    reply,       \* per worker: the generated reply (local of chat)
    messages,    \* per worker: the list save_message read and appended to
    resp,        \* per worker: the response of the last finished request
    called,      \* history variable: the request made the completion call
    failed,      \* history variable: the failure the request met, or "none"
    persisted,   \* history variable: the turns the request wrote, in order
    touched,     \* history variable: another request wrote the request's session
    keys,        \* history variable: the session ids the request used on the store
    issued,      \* the tokens generated so far
    known,       \* the session ids supplied or generated so far
    nreq,        \* number of requests received
    faults,      \* number of injected failures (completion or storage)
    torn         \* history variable: the session ids on which the second
                 \* save_message of a request raised

storeVars == <<db, saved, got, ncalls>>
chatVars == <<pc, data, session_id, message, history, reply, messages, resp,
              called, failed, persisted, touched, keys, issued, known, nreq,
              faults, torn>>
vars == <<db, saved, got, ncalls, pc, data, session_id, message, history, reply,
          messages, resp, called, failed, persisted, touched, keys, issued,
          known, nreq, faults, torn>>

(***************************************************************************)
(* Bounds and program constants                                            *)
(***************************************************************************)
DefaultLimit == 20

MaxPriorTurns == 22

MaxCalls == 3

MaxLimit == 22

Limits == {0, 1, DefaultLimit - 1, DefaultLimit, DefaultLimit + 1, MaxLimit}

PriorExchanges == 10

MaxRequests == 2

MaxFaults == 1

Workers == {1, 2}

SuppliedSids == {"s1"}

Tokens == {"t1", "t2"}

Sids == SuppliedSids \cup Tokens

StoreIds == {"s1", "s2"}

Roles == {"user", "assistant"}

Min(a, b) == IF a < b THEN a ELSE b

Max(a, b) == IF a > b THEN a ELSE b

(***************************************************************************)
(* Session store: SessionManager                                           *)
(***************************************************************************)
Turn(role, text) == [role |-> role, text |-> text]

RECURSIVE DumpItems(_)
DumpItems(msgs) ==
    IF msgs = <<>> THEN <<>>
    ELSE <<Head(msgs).role, Head(msgs).text>> \o DumpItems(Tail(msgs))

\* json.dumps of a list of {role, text} objects
JsonDumps(msgs) == <<"[">> \o DumpItems(msgs) \o <<"]">>

RECURSIVE LoadItems(_)
LoadItems(toks) ==
    IF Len(toks) < 2 THEN <<>>
    ELSE <<Turn(toks[1], toks[2])>> \o LoadItems(SubSeq(toks, 3, Len(toks)))

\* json.loads of such a text
JsonLoads(text) == LoadItems(SubSeq(text, 2, Len(text) - 1))

\* SliceFromNeg with a fault: lst[:limit], the oldest turns instead of the newest
SliceFirst(lst, limit) == SubSeq(lst, 1, Min(Max(limit, 0), Len(lst)))

\* Python's  lst[-limit:]
SliceFromNeg(lst, limit) ==
    LET n == Len(lst)
        start == IF limit > 0 THEN Max(n - limit, 0)
                 ELSE IF limit = 0 THEN 0
                 ELSE Min(0 - limit, n)
    IN  SubSeq(lst, start + 1, n)

\* get_messages with a fault: the slice to the last `limit` turns is forgotten
get_messages_unbounded(table, sid, limit) ==
    IF sid \in DOMAIN table /\ table[sid] # <<>>
    THEN JsonLoads(table[sid])
    ELSE <<>>

\* SessionManager.get_messages: the value returned
get_messages(table, sid, limit) ==
    IF sid \in DOMAIN table /\ table[sid] # <<>>
    THEN SliceFromNeg(JsonLoads(table[sid]), limit)
    ELSE <<>>

\* save_message_list with a fault: the whole stored list is read before the
\* new turn is appended
save_message_list_full(table, sid, role, text) ==
    Append(get_messages_unbounded(table, sid, DefaultLimit), Turn(role, text))

\* save_message, first half: the list read with the default limit, with the
\* new turn appended
save_message_list(table, sid, role, text) ==
    Append(get_messages(table, sid, DefaultLimit), Turn(role, text))

\* upsert with a fault: INSERT OR IGNORE, an existing row is kept as it is
insert_or_ignore(table, sid, msgs) ==
    [s \in DOMAIN table \cup {sid} |->
        IF s \in DOMAIN table THEN table[s] ELSE JsonDumps(msgs)]

\* upsert with a fault: the UPDATE has no WHERE clause, every row is replaced
upsert_every_row(table, sid, msgs) ==
    [s \in DOMAIN table \cup {sid} |-> JsonDumps(msgs)]

\* save_message, second half: INSERT ... ON CONFLICT(session_id) DO UPDATE
upsert(table, sid, msgs) ==
    [s \in DOMAIN table \cup {sid} |->
        IF s = sid THEN JsonDumps(msgs) ELSE table[s]]

\* SessionManager.save_message run without interruption: the table afterwards
save_message(table, sid, role, text) ==
    upsert(table, sid, save_message_list(table, sid, role, text))

\* the turns a session holds in the table (all of them)
Stored(table, sid) ==
    IF sid \in DOMAIN table /\ table[sid] # <<>>
    THEN JsonLoads(table[sid]) ELSE <<>>

IsPrefix(s, t) == Len(s) <= Len(t) /\ SubSeq(t, 1, Len(s)) = s

(***************************************************************************)
(* Earlier traffic: the i-th turn of an earlier conversation, and the      *)
(* table after the first n of them were saved one after another.           *)
(***************************************************************************)
PriorTurn(i) == Turn(IF i % 2 = 1 THEN "user" ELSE "assistant", <<96 + i>>)

PriorLog(n) == [i \in 1 .. n |-> PriorTurn(i)]

RECURSIVE PriorTable(_, _)
PriorTable(sid, n) ==
    IF n = 0 THEN <<>>
    ELSE save_message(PriorTable(sid, n - 1), sid,
                      PriorTurn(n).role, PriorTurn(n).text)

NoData ==
    [json |-> "none", session_id |-> [t |-> "absent", v |-> ""],
     message |-> [t |-> "absent", v |-> <<>>]]

NoResp == [status |-> 0, response |-> <<>>, session_id |-> "", detail |-> ""]

NoGet == [sid |-> "", limit |-> 0, turns |-> <<>>, valid |-> FALSE]

IdleChat ==
    /\ pc = [w \in Workers |-> "idle"]
    /\ data = [w \in Workers |-> NoData]
    /\ session_id = [w \in Workers |-> ""]
    /\ message = [w \in Workers |-> <<>>]
    /\ history = [w \in Workers |-> <<>>]
    /\ reply = [w \in Workers |-> <<>>]
    /\ messages = [w \in Workers |-> <<>>]
    /\ resp = [w \in Workers |-> NoResp]
    /\ called = [w \in Workers |-> FALSE]
    /\ persisted = [w \in Workers |-> <<>>]
    /\ touched = [w \in Workers |-> FALSE]
    /\ failed = [w \in Workers |-> "none"]
    /\ keys = [w \in Workers |-> {}]
    /\ issued = {}
    /\ known = {}
    /\ nreq = 0
    /\ faults = 0
    /\ torn = {}

(***************************************************************************)
(* SpecStore: the store driven directly, one call after another            *)
(***************************************************************************)
InitStore ==
    /\ \E n \in 0 .. MaxPriorTurns :
          /\ db = PriorTable("s1", n)
          /\ saved = [s \in StoreIds \cup Sids |-> IF s = "s1" THEN PriorLog(n) ELSE <<>>]
    /\ got = NoGet
    /\ ncalls = 0
    /\ IdleChat

\* save_turn(sid, role, text)
save_turn(sid, role, text) ==
    /\ ncalls < MaxCalls
    /\ db' = save_message(db, sid, role, text)
    /\ saved' = [saved EXCEPT ![sid] = Append(@, Turn(role, text))]
    /\ ncalls' = ncalls + 1
    /\ UNCHANGED <<got, chatVars>>

\* get_turns with a fault: get-or-create, reading an unknown id inserts an
\* empty row for it
get_turns_creating(sid, limit) ==
    /\ ncalls < MaxCalls
    /\ got' = [sid |-> sid, limit |-> limit,
               turns |-> get_messages(db, sid, limit), valid |-> TRUE]
    /\ db' = IF sid \in DOMAIN db THEN db ELSE upsert(db, sid, <<>>)
    /\ ncalls' = ncalls + 1
    /\ UNCHANGED <<saved, chatVars>>

\* get_turns(sid, limit)
get_turns(sid, limit) ==
    /\ ncalls < MaxCalls
    /\ got' = [sid |-> sid, limit |-> limit,
               turns |-> get_messages(db, sid, limit), valid |-> TRUE]
    /\ ncalls' = ncalls + 1
    /\ UNCHANGED <<db, saved, chatVars>>

NextStore ==
    \/ \E sid \in StoreIds, role \in Roles :
          save_turn(sid, role, <<64 + Len(saved[sid]) + 1>>)
    \/ \E sid \in StoreIds, limit \in Limits : get_turns(sid, limit)

SpecStore == InitStore /\ [][NextStore]_vars

(***************************************************************************)
(* POST /chat: chat and chat_with_gemini                                   *)
(***************************************************************************)
IsSpace(c) == c \in {9, 10, 11, 12, 13, 32}

RECURSIVE LStrip(_)
LStrip(s) == IF s # <<>> /\ IsSpace(Head(s)) THEN LStrip(Tail(s)) ELSE s

RECURSIVE RStrip(_)
RStrip(s) ==
    IF s # <<>> /\ IsSpace(s[Len(s)])
    THEN RStrip(SubSeq(s, 1, Len(s) - 1)) ELSE s

\* str.strip()
Strip(s) == RStrip(LStrip(s))

\* Truthy with a fault: the test  session_id is not None
NotNone(val) == val.t \in {"str", "num"}

\* the truth value Python gives data.get("session_id")
Truthy(val) ==
    CASE val.t = "str" -> val.v # ""
      [] val.t = "num" -> val.v # "0"
      [] OTHER -> FALSE

\* "Sorry..." : the fixed apology text
ApologyText == <<83, 111, 114, 114, 121>>

Ok(text, sid) ==
    [status |-> 200, response |-> text, session_id |-> sid, detail |-> ""]

HttpError(status, detail) ==
    [status |-> status, response |-> <<>>, session_id |-> "", detail |-> detail]

Apology(sid) == Ok(ApologyText, sid)

BadRequest == HttpError(400, "message required")

ServerError == HttpError(500, "Internal server error")

\* the request bodies a client may send as its next request
Absent == [t |-> "absent", v |-> ""]

SidVals ==
    {Absent, [t |-> "null", v |-> ""], [t |-> "num", v |-> "7"]}
    \cup {[t |-> "str", v |-> s] : s \in {""} \cup SuppliedSids \cup issued}

MsgVals ==
    LET c == 64 + nreq + 1
    IN  {[t |-> "absent", v |-> <<>>], [t |-> "null", v |-> <<>>]}
        \cup {[t |-> "str", v |-> x] : x \in {<<>>, <<9, 32>>, <<32, c, 10>>}}

Bodies ==
    {[json |-> "invalid", session_id |-> Absent,
      message |-> [t |-> "absent", v |-> <<>>]]}
    \cup [json : {"object"}, session_id : SidVals, message : MsgVals]

\* MessageOf with a fault: the message is not stripped
MessageUnstripped(b) == b.message.v

\* data.get("message", "").strip(): defined when the value is absent or a string
MessageOf(b) == IF b.message.t = "absent" THEN <<>> ELSE Strip(b.message.v)

\* lines 183-190: 500 when the body is no JSON object or the message is no
\* string, 400 when the stripped message is empty, 0 when the request goes on
Validate(b) ==
    IF b.json # "object" \/ b.message.t \notin {"absent", "str"} THEN 500
    ELSE IF MessageOf(b) = <<>> THEN 400
    ELSE 0

InFlight == {"parsed", "load", "complete", "save_user", "write_user",
             "save_assistant", "write_assistant"}

\* chat, line 183: a worker takes up a request and reads its body; the
\* locals and history variables of the worker start afresh.  The workers are
\* interchangeable: a request goes to the lowest-numbered free worker.
chat_receive(w, b) ==
    /\ pc[w] \in {"idle", "done"}
    /\ \A v \in Workers : v < w => pc[v] \in InFlight
    /\ nreq < MaxRequests
    /\ nreq' = nreq + 1
    /\ pc' = [pc EXCEPT ![w] = "parsed"]
    /\ data' = [data EXCEPT ![w] = b]
    /\ session_id' = [session_id EXCEPT ![w] = ""]
    /\ message' = [message EXCEPT ![w] = <<>>]
    /\ resp' = [resp EXCEPT ![w] = NoResp]
    /\ history' = [history EXCEPT ![w] = <<>>]
    /\ reply' = [reply EXCEPT ![w] = <<>>]
    /\ messages' = [messages EXCEPT ![w] = <<>>]
    /\ called' = [called EXCEPT ![w] = FALSE]
    /\ failed' = [failed EXCEPT ![w] = "none"]
    /\ persisted' = [persisted EXCEPT ![w] = <<>>]
    /\ touched' = [touched EXCEPT ![w] = FALSE]
    /\ keys' = [keys EXCEPT ![w] = {}]
    /\ UNCHANGED <<storeVars, issued, known, torn, faults>>

\* the request is answered before it reaches chat_with_gemini
Reject(w, r) ==
    /\ pc' = [pc EXCEPT ![w] = "done"]
    /\ resp' = [resp EXCEPT ![w] = r]
    /\ UNCHANGED <<session_id, message, issued, known>>

\* the request goes on with session id sid
Resolve(w, sid) ==
    /\ pc' = [pc EXCEPT ![w] = "load"]
    /\ session_id' = [session_id EXCEPT ![w] = sid]
    /\ message' = [message EXCEPT ![w] = MessageOf(data[w])]
    /\ known' = known \cup {sid}
    /\ UNCHANGED resp

\* chat, lines 184-199: validate the message, resolve the session id
chat_resolve(w) ==
    /\ pc[w] = "parsed"
    /\ data' = [data EXCEPT ![w] = NoData]
    /\ \/ /\ Validate(data[w]) = 500
          /\ Reject(w, ServerError)
       \/ /\ Validate(data[w]) = 400
          /\ Reject(w, BadRequest)
       \/ /\ Validate(data[w]) = 0
          /\ ~Truthy(data[w].session_id)
          /\ \E t \in Tokens \ issued :
                /\ Resolve(w, t)
                /\ issued' = issued \cup {t}
       \/ /\ Validate(data[w]) = 0
          /\ Truthy(data[w].session_id)
          /\ data[w].session_id.t # "str"
          /\ Reject(w, ServerError)
       \/ /\ Validate(data[w]) = 0
          /\ Truthy(data[w].session_id)
          /\ data[w].session_id.t = "str"
          /\ Resolve(w, data[w].session_id.v)
          /\ UNCHANGED issued
    /\ UNCHANGED <<storeVars, history, reply, messages, called, failed,
                   persisted, touched, keys, nreq, faults, torn>>

RECURSIVE to_provider_format_verbatim(_)
\* to_provider_format with a fault: the role is copied as it is stored
to_provider_format_verbatim(memory) ==
    IF memory = <<>> THEN <<>>
    ELSE LET msg == Head(memory)
             rest == to_provider_format_verbatim(Tail(memory))
         IN  IF msg.role \in {"user", "assistant"}
             THEN <<[role |-> msg.role, parts |-> <<msg.text>>]>> \o rest
             ELSE rest

RECURSIVE to_provider_format(_)
\* chat_with_gemini, lines 127-139: the history in the provider's format
to_provider_format(memory) ==
    IF memory = <<>> THEN <<>>
    ELSE LET msg == Head(memory)
             rest == to_provider_format(Tail(memory))
         IN  IF msg.role = "user"
             THEN <<[role |-> "user", parts |-> <<msg.text>>]>> \o rest
             ELSE IF msg.role = "assistant"
             THEN <<[role |-> "model", parts |-> <<msg.text>>]>> \o rest
             ELSE rest

\* the request ends with response r
Finish(w, r) ==
    /\ pc' = [pc EXCEPT ![w] = "done"]
    /\ resp' = [resp EXCEPT ![w] = r]
    /\ session_id' = [session_id EXCEPT ![w] = ""]
    /\ message' = [message EXCEPT ![w] = <<>>]
    /\ history' = [history EXCEPT ![w] = <<>>]
    /\ reply' = [reply EXCEPT ![w] = <<>>]
    /\ messages' = [messages EXCEPT ![w] = <<>>]

\* chat_with_gemini, lines 111-146: load the context, build the history and
\* start the chat with it
load_context(w) ==
    /\ pc[w] = "load"
    /\ history' = [history EXCEPT ![w] =
          to_provider_format(get_messages(db, session_id[w], DefaultLimit))]
    /\ keys' = [keys EXCEPT ![w] = @ \cup {session_id[w]}]
    /\ pc' = [pc EXCEPT ![w] = "complete"]
    /\ UNCHANGED <<storeVars, data, session_id, message, reply, messages, resp,
                   called, failed, persisted, touched, issued, known, torn, nreq,
                   faults>>

\* get_messages raises at line 112: the exception leaves chat_with_gemini
\* and is caught at line 204
load_context_fails(w) ==
    /\ pc[w] = "load"
    /\ faults < MaxFaults
    /\ faults' = faults + 1
    /\ failed' = [failed EXCEPT ![w] = "load"]
    /\ keys' = [keys EXCEPT ![w] = @ \cup {session_id[w]}]
    /\ Finish(w, Apology(session_id[w]))
    /\ UNCHANGED <<storeVars, data, called, persisted, touched, issued, known, torn, nreq>>

\* chat.send_message returns, lines 149-154, 203
complete(w, text) ==
    /\ pc[w] = "complete"
    /\ called' = [called EXCEPT ![w] = TRUE]
    /\ reply' = [reply EXCEPT ![w] = text]
    /\ pc' = [pc EXCEPT ![w] = "save_user"]
    /\ UNCHANGED <<storeVars, data, session_id, message, history, messages, resp,
                   failed, persisted, touched, keys, issued, known, torn, nreq,
                   faults>>

\* complete_fails with a fault: the user turn is saved before the completion
\* call, so a failed call leaves it in the table
complete_fails_after_save(w) ==
    /\ pc[w] = "complete"
    /\ faults < MaxFaults
    /\ faults' = faults + 1
    /\ called' = [called EXCEPT ![w] = TRUE]
    /\ failed' = [failed EXCEPT ![w] = "completion"]
    /\ db' = save_message(db, session_id[w], "user", message[w])
    /\ saved' = [saved EXCEPT ![session_id[w]] =
                   Append(@, Turn("user", message[w]))]
    /\ persisted' = [persisted EXCEPT ![w] =
                       Append(@, Turn("user", message[w]))]
    /\ Finish(w, Apology(session_id[w]))
    /\ UNCHANGED <<got, ncalls, data, touched, keys, issued, known, torn, nreq>>

\* chat.send_message raises, lines 156-159, 204-210
complete_fails(w) ==
    /\ pc[w] = "complete"
    /\ faults < MaxFaults
    /\ faults' = faults + 1
    /\ called' = [called EXCEPT ![w] = TRUE]
    /\ failed' = [failed EXCEPT ![w] = "completion"]
    /\ Finish(w, Apology(session_id[w]))
    /\ UNCHANGED <<storeVars, data, persisted, touched, keys, issued, known, torn,
                   nreq>>

\* TurnToSave with a fault: the assistant turn is saved first
TurnToSaveSwapped(w) ==
    IF pc[w] \in {"save_user", "write_user"}
    THEN Turn("assistant", reply[w])
    ELSE Turn("user", message[w])

\* TurnToSave with a fault: the reply is saved under the provider's role name
TurnToSaveProviderRole(w) ==
    IF pc[w] \in {"save_user", "write_user"}
    THEN Turn("user", message[w])
    ELSE Turn("model", reply[w])

\* lines 213-214: the turn the save_message call in progress saves
TurnToSave(w) ==
    IF pc[w] \in {"save_user", "write_user"}
    THEN Turn("user", message[w])
    ELSE Turn("assistant", reply[w])

\* save_message, lines 85-86: read the history and append the turn
save_read(w) ==
    /\ pc[w] \in {"save_user", "save_assistant"}
    /\ messages' = [messages EXCEPT ![w] =
          save_message_list(db, session_id[w], TurnToSave(w).role,
                            TurnToSave(w).text)]
    /\ keys' = [keys EXCEPT ![w] = @ \cup {session_id[w]}]
    /\ pc' = [pc EXCEPT ![w] =
          IF pc[w] = "save_user" THEN "write_user" ELSE "write_assistant"]
    /\ UNCHANGED <<storeVars, data, session_id, message, history, reply, resp,
                   called, failed, persisted, touched, issued, known, torn, nreq,
                   faults>>

\* save_write with a fault: the read and the write are one transaction, the
\* turn is appended to the row as it is at the time of the write
save_write_atomic(w) ==
    /\ pc[w] \in {"write_user", "write_assistant"}
    /\ db' = save_message(db, session_id[w], TurnToSave(w).role,
                          TurnToSave(w).text)
    /\ saved' = [saved EXCEPT ![session_id[w]] = Append(@, TurnToSave(w))]
    /\ persisted' = [persisted EXCEPT ![w] = Append(@, TurnToSave(w))]
    /\ touched' = [v \in Workers |->
          IF v # w /\ pc[v] \in InFlight /\ session_id[v] = session_id[w]
          THEN TRUE ELSE touched[v]]
    /\ keys' = [keys EXCEPT ![w] = @ \cup {session_id[w]}]
    /\ IF pc[w] = "write_user"
       THEN /\ pc' = [pc EXCEPT ![w] = "save_assistant"]
            /\ messages' = [messages EXCEPT ![w] = <<>>]
            /\ UNCHANGED <<resp, history, session_id, message, reply>>
       ELSE Finish(w, Ok(reply[w], session_id[w]))
    /\ UNCHANGED <<got, ncalls, data, called, failed, issued, known, torn, nreq,
                   faults>>

\* save_message, lines 87-92: write the list back; after the second write
\* the request returns, lines 216-218
save_write(w) ==
    /\ pc[w] \in {"write_user", "write_assistant"}
    /\ db' = upsert(db, session_id[w], messages[w])
    /\ saved' = [saved EXCEPT ![session_id[w]] = Append(@, TurnToSave(w))]
    /\ persisted' = [persisted EXCEPT ![w] = Append(@, TurnToSave(w))]
    /\ touched' = [v \in Workers |->
          IF v # w /\ pc[v] \in InFlight /\ session_id[v] = session_id[w]
          THEN TRUE ELSE touched[v]]
    /\ keys' = [keys EXCEPT ![w] = @ \cup {session_id[w]}]
    /\ IF pc[w] = "write_user"
       THEN /\ pc' = [pc EXCEPT ![w] = "save_assistant"]
            /\ messages' = [messages EXCEPT ![w] = <<>>]
            /\ UNCHANGED <<resp, history, session_id, message, reply>>
       ELSE Finish(w, Ok(reply[w], session_id[w]))
    /\ UNCHANGED <<got, ncalls, data, called, failed, issued, known, torn, nreq,
                   faults>>

\* a statement of save_message raises: caught at line 222, answered 500
storage_fails(w) ==
    /\ pc[w] \in {"save_user", "write_user", "save_assistant", "write_assistant"}
    /\ faults < MaxFaults
    /\ faults' = faults + 1
    /\ failed' = [failed EXCEPT ![w] = "storage"]
    /\ keys' = [keys EXCEPT ![w] = @ \cup {session_id[w]}]
    /\ torn' = IF pc[w] \in {"save_assistant", "write_assistant"}
               THEN torn \cup {session_id[w]} ELSE torn
    /\ Finish(w, ServerError)
    /\ UNCHANGED <<storeVars, data, called, persisted, touched, issued, known, nreq>>

\* the reply the completion service gives to a message
ReplyTo(msg) == msg \o <<33>>

Init ==
    /\ db = PriorTable("s1", 2 * PriorExchanges)
    /\ saved = [s \in StoreIds \cup Sids |->
                  IF s = "s1" THEN PriorLog(2 * PriorExchanges) ELSE <<>>]
    /\ got = NoGet
    /\ ncalls = 0
    /\ IdleChat

Next ==
    \/ \E w \in Workers, b \in Bodies : chat_receive(w, b)
    \/ \E w \in Workers : chat_resolve(w)
    \/ \E w \in Workers : load_context(w)
    \/ \E w \in Workers : load_context_fails(w)
    \/ \E w \in Workers : complete(w, ReplyTo(message[w]))
    \/ \E w \in Workers : complete_fails(w)
    \/ \E w \in Workers : save_read(w)
    \/ \E w \in Workers : save_write(w)
    \/ \E w \in Workers : storage_fails(w)

Spec == Init /\ [][Next]_vars

(***************************************************************************)
(* SpecSeq: POST /chat with the requests handled one after another and no  *)
(* failing store operation; the completion call may still fail.            *)
(***************************************************************************)
\* no request other than the one of worker w is being handled
Alone(w) == \A v \in Workers \ {w} : pc[v] \notin InFlight

NextSeq ==
    \/ \E w \in Workers, b \in Bodies : Alone(w) /\ chat_receive(w, b)
    \/ \E w \in Workers : Alone(w) /\ chat_resolve(w)
    \/ \E w \in Workers : Alone(w) /\ load_context(w)
    \/ \E w \in Workers : Alone(w) /\ complete(w, ReplyTo(message[w]))
    \/ \E w \in Workers : Alone(w) /\ complete_fails(w)
    \/ \E w \in Workers : Alone(w) /\ save_read(w)
    \/ \E w \in Workers : Alone(w) /\ save_write(w)

SpecSeq == Init /\ [][NextSeq]_vars

(***************************************************************************)
(* SpecAdapter: the loop of lines 127-139 applied to any list that         *)
(* get_messages may hand it, turns of a role other than user and assistant *)
(* included.  got.turns is the list `memory`, history[w] the list built.   *)
(***************************************************************************)
MaxMemory == 3

AdapterRoles == Roles \cup {"system"}

AdapterTexts == {<<97>>, <<98>>}

Memories ==
    UNION {[1 .. n -> [role : AdapterRoles, text : AdapterTexts]] :
             n \in 0 .. MaxMemory}

InitAdapter ==
    /\ db = <<>>
    /\ saved = [s \in StoreIds \cup Sids |-> <<>>]
    /\ \E memory \in Memories :
          got = [sid |-> "s1", limit |-> DefaultLimit, turns |-> memory,
                 valid |-> TRUE]
    /\ ncalls = 0
    /\ IdleChat

\* lines 127-139 run by worker w on the list got.turns
adapt(w) ==
    /\ pc[w] = "idle"
    /\ history' = [history EXCEPT ![w] = to_provider_format(got.turns)]
    /\ pc' = [pc EXCEPT ![w] = "complete"]
    /\ UNCHANGED <<storeVars, data, session_id, message, reply, messages, resp,
                   called, failed, persisted, touched, keys, issued, known,
                   nreq, faults, torn>>

NextAdapter == \E w \in Workers : adapt(w)

SpecAdapter == InitAdapter /\ [][NextAdapter]_vars

(***************************************************************************)
(* Properties                                                              *)
(***************************************************************************)
SavePcs == {"save_user", "write_user", "save_assistant", "write_assistant"}

\* C1: when the completion call of a request fails, the request answers 200
\* with the fixed apology text and its resolved session id, the table is what
\* it was, and the request has written no turn at any of its steps.
C1_CompletionFailureAbsorbed ==
    [][\A w \in Workers :
         (pc[w] = "complete" /\ failed'[w] = "completion") =>
            /\ pc'[w] = "done"
            /\ resp'[w] = [status |-> 200, response |-> ApologyText,
                           session_id |-> session_id[w], detail |-> ""]
            /\ session_id[w] # ""
            /\ db' = db
            /\ saved' = saved
            /\ persisted'[w] = <<>>]_vars

C1_Witness ==
    \E w \in Workers :
        /\ pc[w] = "done"
        /\ called[w]
        /\ failed[w] = "completion"
        /\ resp[w].status = 200
        /\ resp[w].response = ApologyText
        /\ resp[w].session_id \in Sids

\* what C2 promises of a request that ends: both turns written in order, the
\* session's stored history ending with them, and the reply answered
PersistedBoth(w) ==
    LET h == Stored(db', session_id[w])
    IN  /\ persisted'[w] = <<Turn("user", message[w]),
                             Turn("assistant", reply[w])>>
        /\ Len(h) >= 2
        /\ h[Len(h) - 1] = Turn("user", message[w])
        /\ h[Len(h)] = Turn("assistant", reply[w])
        /\ resp'[w] = [status |-> 200, response |-> reply[w],
                       session_id |-> session_id[w], detail |-> ""]

Blank(val) ==
    \/ val.t = "absent"
    \/ val.t = "str" /\ \A i \in 1 .. Len(val.v) : val.v[i] \in {9, 10, 13, 32}

\* C3: a request whose body is a JSON object with a missing, empty or
\* whitespace-only message, whatever its session_id, is answered 400 at once:
\* no completion call, no session id generated, no row created, table unchanged.
C3_BlankMessageRejected ==
    [][\A w \in Workers :
         (pc[w] = "parsed" /\ pc'[w] # "parsed"
            /\ data[w].json = "object" /\ Blank(data[w].message)) =>
            /\ pc'[w] = "done"
            /\ resp'[w].status = 400
            /\ ~called'[w]
            /\ persisted'[w] = <<>>
            /\ issued' = issued
            /\ DOMAIN db' = DOMAIN db
            /\ db' = db
            /\ saved' = saved]_vars

C3_Witness ==
    \E w \in Workers :
        /\ pc[w] = "done"
        /\ resp[w] = BadRequest
        /\ ~called[w]
        /\ persisted[w] = <<>>

\* C4: the stored turn sequence of a session is append-only: at every step
\* the sequence stored before is a prefix of the sequence stored after.
C4_AppendOnly ==
    [][\A s \in StoreIds : IsPrefix(Stored(db, s), Stored(db', s))]_vars

\* C5: save_turn leaves the complete stored history followed by the new turn,
\* whatever the length of the stored history.
C5_SaveKeepsFullHistory ==
    [][\A s \in StoreIds :
         saved'[s] # saved[s] =>
            Stored(db', s) = Append(Stored(db, s), saved'[s][Len(saved'[s])])]_vars

\* C6: a request in which a store operation failed, while loading the context
\* or in one of the two persist writes, ends with status 500.
C6_StorageFailureIs500 ==
    \A w \in Workers :
        (pc[w] = "done" /\ failed[w] \in {"load", "storage"}) =>
            resp[w].status = 500

\* C7: the history a request hands to the completion call, built when it loads
\* its context, is the last min(20, n) of the n turns the table then holds for
\* its session, oldest first, in the provider's format: never more than 20
\* messages, and none for a session without stored turns.
C7_ContextIsRecentWindow ==
    [][\A w \in Workers :
         (pc[w] = "load" /\ pc'[w] = "complete") =>
            LET h == Stored(db, session_id[w])
                n == Len(h)
                m == IF n < 20 THEN n ELSE 20
            IN  /\ Len(history'[w]) = m
                /\ \A i \in 1 .. m :
                      /\ history'[w][i].parts = <<h[n - m + i].text>>
                      /\ history'[w][i].role =
                            (IF h[n - m + i].role = "assistant"
                             THEN "model" ELSE h[n - m + i].role)]_vars

C7_Witness ==
    \E w \in Workers :
        /\ pc[w] = "complete"
        /\ Len(Stored(db, session_id[w])) = 21
        /\ Len(history[w]) = 20
        /\ history[w][20].parts = <<Stored(db, session_id[w])[21].text>>

\* a step that is a call get_turns(s, limit)
GetStep(s, limit) ==
    /\ ncalls' = ncalls + 1
    /\ saved' = saved
    /\ got'.sid = s
    /\ got'.limit = limit

\* C8: after N > 20 save_turn calls on a session, one after another,
\* get_turns(id, 20) returns the 20 most recently saved turns, oldest first.
C8_BoundedRecent ==
    [][\A s \in StoreIds :
         (GetStep(s, 20) /\ Len(saved[s]) > 20) =>
            /\ Len(got'.turns) = 20
            /\ \A i \in 1 .. 20 :
                  got'.turns[i] = saved[s][Len(saved[s]) - 20 + i]]_vars

C8_Witness ==
    /\ got.valid
    /\ got.limit = 20
    /\ Len(saved[got.sid]) > 21
    /\ Len(got.turns) = 20
    /\ got.turns[20] = saved[got.sid][Len(saved[got.sid])]

\* a JSON value that is a non-empty string
NonEmptyStr(val) == val.t = "str" /\ val.v # ""

Resolved == InFlight \ {"parsed"}

\* what holds of a request once its session id is resolved: the id does not
\* change, it is the only key the request uses on the store, and it is the
\* session_id of a 200 response
UsesResolvedId(w) ==
    /\ (pc[w] \in Resolved /\ pc'[w] \in Resolved) =>
          session_id'[w] = session_id[w]
    /\ pc[w] \in Resolved => keys'[w] \subseteq {session_id[w]}
    /\ (pc[w] \in Resolved /\ pc'[w] = "done" /\ resp'[w].status = 200) =>
          resp'[w].session_id = session_id[w]

\* C9 as stated: the resolved session id is the supplied one whenever the
\* body carries a session_id, whatever its value, and otherwise a newly
\* generated non-empty token that no earlier request supplied or received.
C9_Original ==
    [][\A w \in Workers :
         /\ (pc[w] = "parsed" /\ pc'[w] = "load") =>
               IF data[w].session_id.t # "absent"
               THEN session_id'[w] = data[w].session_id.v
               ELSE session_id'[w] \in Tokens \ known
         /\ UsesResolvedId(w)]_vars

\* C9 amended: the resolved session id is the supplied one whenever the body
\* carries a non-empty string as session_id; when the body carries none, or
\* null, the empty string or another false value, it is a newly generated
\* non-empty token that no earlier request supplied or received.
C9_SessionIdResolved ==
    [][\A w \in Workers :
         /\ (pc[w] = "parsed" /\ pc'[w] = "load") =>
               /\ data[w].json = "object"
               /\ ~Blank(data[w].message)
               /\ data[w].session_id.t \in {"absent", "null", "str"}
               /\ IF NonEmptyStr(data[w].session_id)
                  THEN session_id'[w] = data[w].session_id.v
                  ELSE /\ session_id'[w] \in Tokens \ known
                       /\ session_id'[w] # ""
         /\ UsesResolvedId(w)]_vars

C9_Witness ==
    \E w \in Workers :
        /\ pc[w] = "done"
        /\ resp[w].status = 200
        /\ resp[w].session_id \in Tokens
        /\ known \cap SuppliedSids # {}
        /\ resp[w].session_id \in DOMAIN db

\* C10: after k save_turn calls (1 <= k <= 20), one after another, on a session
\* id without earlier writes, get_turns(id) returns the k saved turns, each
\* with its role and text, in the order saved.
C10_RoundTrip ==
    [][\A s \in StoreIds :
         (GetStep(s, DefaultLimit) /\ Len(saved[s]) \in 1 .. 20) =>
            got'.turns = saved[s]]_vars

C10_Witness ==
    /\ got.valid
    /\ got.limit = DefaultLimit
    /\ Len(saved[got.sid]) = 20
    /\ got.turns = saved[got.sid]
    /\ got.turns[1].role = "user"

\* C11: get_turns on a session id that was never written returns the empty
\* sequence; a session has a row only once a save_turn was made on it; and a
\* get_turns call leaves the table as it was.
C11_ReadCreatesNothing ==
    [][/\ \A s \in StoreIds :
            /\ s \in DOMAIN db <=> saved[s] # <<>>
            /\ s \in DOMAIN db' <=> saved'[s] # <<>>
       /\ \A s \in StoreIds, limit \in Limits :
            GetStep(s, limit) =>
               /\ db' = db
               /\ DOMAIN db' = DOMAIN db
               /\ saved[s] = <<>> => got'.turns = <<>>]_vars

C11_Witness ==
    /\ got.valid
    /\ saved[got.sid] = <<>>
    /\ got.turns = <<>>
    /\ got.sid \notin DOMAIN db
    /\ DOMAIN db # {}

\* a turn the adapter keeps
IsChatRole(t) == t.role \in {"user", "assistant"}

\* C12: the history built from a list of turns holds, in the same order, one
\* message for every turn of role user or assistant, with the same text, the
\* role user kept and the role assistant turned into model; the turns of any
\* other role are left out.
C12_AdapterMapsRoles ==
    \A w \in Workers :
        pc[w] = "complete" =>
           LET kept == SelectSeq(got.turns, IsChatRole)
           IN  /\ Len(history[w]) = Len(kept)
               /\ \A i \in 1 .. Len(kept) :
                     /\ history[w][i].parts = <<kept[i].text>>
                     /\ history[w][i].role =
                           (IF kept[i].role = "user" THEN "user" ELSE "model")

C12_Witness ==
    \E w \in Workers :
        /\ pc[w] = "complete"
        /\ Len(got.turns) = 3
        /\ got.turns[1].role = "assistant"
        /\ got.turns[2].role = "system"
        /\ got.turns[3].role = "user"
        /\ got.turns[1].text # got.turns[3].text
        /\ Len(history[w]) = 2
        /\ history[w][1] = [role |-> "model", parts |-> <<got.turns[1].text>>]
        /\ history[w][2] = [role |-> "user", parts |-> <<got.turns[3].text>>]

\* the turns of a sequence, as a set
Range(seq) == {seq[i] : i \in 1 .. Len(seq)}

\* a step in which worker w writes the session row
WriteStep(w) ==
    /\ pc[w] \in {"write_user", "write_assistant"}
    /\ persisted'[w] # persisted[w]

\* C13: the write of save_message puts back the list the request read
\* earlier with its turn appended, whatever the row holds by then: a turn
\* another request stored in between is gone after the write.  Two requests
\* on one session can therefore both answer 200 with a reply while a turn one
\* of them persisted is missing from the stored history (C13_LostUpdate).
C13_WriteOverwrites ==
    [][\A w \in Workers :
         WriteStep(w) =>
            LET before == Stored(db, session_id[w])
                after == Stored(db', session_id[w])
            IN  /\ after = messages[w]
                /\ \A t \in Range(before) \ Range(messages[w]) :
                      t \notin Range(after)]_vars

C13_LostUpdate ==
    \E w \in Workers : \E v \in Workers \ {w} :
        /\ pc[w] = "done" /\ pc[v] = "done"
        /\ resp[w].status = 200 /\ resp[v].status = 200
        /\ resp[w].response # ApologyText /\ resp[v].response # ApologyText
        /\ resp[w].session_id = resp[v].session_id
        /\ Len(persisted[w]) = 2 /\ Len(persisted[v]) = 2
        /\ \E i \in 1 .. 2 :
              persisted[w][i] \notin Range(Stored(db, resp[w].session_id))

\* the last n turns of a sequence, all of it when it is shorter
LastTurns(seq, n) == SubSeq(seq, Len(seq) - Min(n, Len(seq)) + 1, Len(seq))

\* C14: for every stored history h and every limit from 0 upward,
\* get_turns(id, limit) returns exactly the last min(limit, |h|) turns of h,
\* never more than limit turns, and the most recent limit turns ever saved
\* when limit is larger than 20.
C14_WindowForEveryLimit ==
    [][\A s \in StoreIds, limit \in Limits :
         GetStep(s, limit) =>
            /\ got'.turns = LastTurns(Stored(db, s), limit)
            /\ Len(got'.turns) <= limit
            /\ limit > 20 => got'.turns = LastTurns(saved[s], limit)]_vars

\* no request that has resolved its session id to s is still being handled
Quiet(s) == \A w \in Workers : ~(pc[w] \in Resolved /\ session_id[w] = s)

\* the stored history of s is empty or ends with an assistant turn
EndsWithAssistant(s) ==
    LET h == Stored(db, s)
    IN  h = <<>> \/ h[Len(h)].role = "assistant"

Alternates(h) ==
    /\ Len(h) % 2 = 0
    /\ \A i \in 1 .. Len(h) :
          h[i].role = (IF i % 2 = 1 THEN "user" ELSE "model")

\* C16: when the requests run one after another and no store operation
\* fails, the history handed to the completion call in every request has an
\* even number of messages that alternate user, model, starting with user
\* and ending with model, also once the session has had more than 10
\* exchanges and the oldest turns are outside the window.
C16_HistoryAlternates ==
    [][\A w \in Workers :
         (pc[w] = "load" /\ pc'[w] = "complete") => Alternates(history'[w])]_vars

C16_Witness ==
    \E w \in Workers :
        /\ pc[w] = "complete"
        /\ Len(saved[session_id[w]]) > 2 * PriorExchanges
        /\ Len(Stored(db, session_id[w])) = DefaultLimit + 1
        /\ Stored(db, session_id[w])[1].role = "assistant"
        /\ Len(history[w]) = DefaultLimit
        /\ history[w][1].role = "user"
        /\ history[w][DefaultLimit].role = "model"

\* C17: in every reachable state, after any sequence and interleaving of
\* requests, the stored turn list of every session holds at most 21 turns
\* (the default limit of 20 plus the turn just appended).
C17_AtMost21Stored ==
    \A s \in DOMAIN db : Len(Stored(db, s)) <= DefaultLimit + 1

C17_Witness ==
    \E s \in DOMAIN db :
        /\ Len(saved[s]) >= DefaultLimit + 4
        /\ Len(Stored(db, s)) = DefaultLimit + 1
        /\ Stored(db, s)[DefaultLimit + 1] = saved[s][Len(saved[s])]

\* the stored turn a provider-format message was built from
TurnOf(m) ==
    Turn(IF m.role = "model" THEN "assistant" ELSE m.role, m.parts[1])

\* C18: a step of a request on session s leaves the row of every other
\* session as it was (and creates none), and the history handed to the
\* completion call for s holds only turns that were saved under s and under
\* no other session.
C18_SessionsIsolated ==
    [][\A w \in Workers :
         pc'[w] # pc[w] =>
            /\ \A s \in Sids :
                  (pc[w] \notin Resolved \/ s # session_id[w]) =>
                     /\ s \in DOMAIN db' <=> s \in DOMAIN db
                     /\ Stored(db', s) = Stored(db, s)
            /\ (pc[w] = "load" /\ pc'[w] = "complete") =>
                  \A i \in 1 .. Len(history'[w]) :
                     /\ TurnOf(history'[w][i]) \in Range(saved[session_id[w]])
                     /\ \A s \in Sids \ {session_id[w]} :
                           TurnOf(history'[w][i]) \notin Range(saved[s])]_vars

C18_Witness ==
    \E w \in Workers :
        /\ pc[w] = "complete"
        /\ session_id[w] \in Tokens
        /\ Len(history[w]) = 2
        /\ TurnOf(history[w][1]) = Stored(db, session_id[w])[1]
        /\ Len(saved["s1"]) = 2 * PriorExchanges
        /\ Len(Stored(db, "s1")) >= DefaultLimit

\* every turn stored in table has role user or assistant
OnlyChatRoles(table) ==
    \A s \in DOMAIN table : \A t \in Range(Stored(table, s)) : IsChatRole(t)

\* C19: in every state reached through POST /chat every stored turn has role
\* user or assistant, so the adapter leaves no turn out: the history handed
\* to the completion call has as many messages as the context loaded from
\* the store.
C19_NoTurnDropped ==
    [][/\ OnlyChatRoles(db)
       /\ OnlyChatRoles(db')
       /\ \A w \in Workers :
            (pc[w] = "load" /\ pc'[w] = "complete") =>
               Len(history'[w]) =
                  Len(get_messages(db, session_id[w], DefaultLimit))]_vars

C19_Witness ==
    \E w \in Workers :
        /\ pc[w] = "complete"
        /\ session_id[w] \in SuppliedSids
        /\ Len(saved[session_id[w]]) > 2 * PriorExchanges
        /\ Len(get_messages(db, session_id[w], DefaultLimit)) = DefaultLimit
        /\ Len(history[w]) = DefaultLimit
        /\ TurnOf(history[w][DefaultLimit]) =
              saved[session_id[w]][Len(saved[session_id[w]])]

====
